---- MODULE Spec2Model ----
(***************************************************************************)
(* Model of local_model_server.py: the model registry with its lazy cache  *)
(* (MODELS, loaded_models, load_model) and the three HTTP handlers         *)
(* (root, list_models, chat) served by one asyncio event loop.             *)
(*                                                                         *)
(* Strings are sequences of string tokens; concatenation is \o.            *)
(* A Llama instance is identified by a natural number (its identity).      *)
(***************************************************************************)
EXTENDS Integers, Sequences, FiniteSets, TLC

(* ------------------------------ bounds --------------------------------- *)

\* number of chat requests that can be in flight at once
NumReqs == 2

\* number of Llama instances constructed in one run
MaxInstances == 3

\* longest message list of a rendered request
MaxMsgs == 2

Reqs == 1..NumReqs

(* --------------------------- configuration ----------------------------- *)

\* keys of MODELS in insertion order (dict iteration order)
ModelKeys == <<"mistral", "llama", "tinyllama", "openhermes">>

ModelIds == {ModelKeys[i] : i \in 1..Len(ModelKeys)}

\* the dict literal MODELS is bound to at import
ModelConfig ==
  [k \in ModelIds |->
     [path |-> "./models/llama.gguf",
      name |-> "Llama-3-8B-Instruct",
      context_length |-> 4096]]

Paths == {ModelConfig[k].path : k \in ModelIds}

(* ------------------------------ inputs --------------------------------- *)

\* model ids sent in the server specification: two configured ids, an unknown id
RequestIds == {"mistral", "llama", "nope"}

\* model ids sent in the single-request specification: a configured id, the empty id
SingleIds == {"llama", ""}

\* the value of message.get("role", "user") when the key is missing
NoRole == "<no role>"

Roles == {"system", "user", "assistant", "tool", NoRole}

Contents == {"hi", "yo"}

Messages == [role : Roles, content : Contents]

SeqsUpTo(S, n) == UNION {[1..k -> S] : k \in 0..n}

\* message lists of the requests of the server specification
ChatMsgs == {<<[role |-> "user", content |-> "hi"]>>}

\* message lists of the requests of the single-request specification
RenderMsgs == SeqsUpTo(Messages, MaxMsgs)

\* texts of the exceptions the engine can raise
EngineErrors == {"out of memory", "bad gguf"}

\* the exception the engine raises in the server specification
ChatErrors == {"out of memory"}

\* completions the engine can return (response["choices"][0]["text"], usage)
EngineResponses ==
  { [text |-> <<" ", "Hello", " ">>,
     usage |-> [prompt_tokens |-> 2, completion_tokens |-> 1, total_tokens |-> 3]],
    [text |-> <<"Hello">>,
     usage |-> [prompt_tokens |-> 1, completion_tokens |-> 1, total_tokens |-> 2]],
    [text |-> <<"Hi", "\n">>,
     usage |-> [prompt_tokens |-> 1, completion_tokens |-> 2, total_tokens |-> 9]] }

\* the completion the engine returns in the server specification
ChatResponses ==
  { [text |-> <<" ", "Hello", " ">>,
     usage |-> [prompt_tokens |-> 2, completion_tokens |-> 1, total_tokens |-> 3]] }

(* ------------------------------- state --------------------------------- *)

VARIABLES
  MODELS,         \* the module-level configuration dict
  loaded_models,  \* the cache: function from cached ids to Llama instances
  fs,             \* set of paths that exist on disk
  nextHandle,     \* identity of the next Llama instance constructed
  running,        \* the coroutine occupying the event loop, 0 when idle
  pc,             \* position of each chat request
  req,            \* ChatRequest of each chat request
  model,          \* local `model` of chat (0: unbound)
  prompt,         \* local `prompt` of chat
  idx,            \* number of messages the for loop has consumed
  exc,            \* exception in flight / raised inside the try block
  response,       \* local `response` of chat: what the engine returned
  resp,           \* HTTP response of each chat request
  lastGet,        \* response of a GET handler, until the next chat handler starts
  trace,          \* calls made by each request: cache, config, probe, load, generate
  raced,          \* the request was pending while another one invoked the loader for its id
  returned        \* per id: instances load_model has returned

vars == <<MODELS, loaded_models, fs, nextHandle, running, pc, req, model, prompt, idx,
          exc, response, resp, lastGet, trace, raced, returned>>

AllIds == ModelIds \cup RequestIds \cup SingleIds

NoReq == [model |-> "", messages |-> <<>>]

NoResp == [status |-> 0, detail |-> <<>>, body |-> <<>>]

Init ==
  /\ MODELS = ModelConfig
  /\ loaded_models = [k \in {} |-> 0]
  /\ fs \in SUBSET Paths
  /\ nextHandle = 1
  /\ running = 0
  /\ pc = [r \in Reqs |-> "idle"]
  /\ req = [r \in Reqs |-> NoReq]
  /\ model = [r \in Reqs |-> 0]
  /\ prompt = [r \in Reqs |-> <<>>]
  /\ idx = [r \in Reqs |-> 0]
  /\ exc = [r \in Reqs |-> <<>>]
  /\ response = [r \in Reqs |-> <<>>]
  /\ resp = [r \in Reqs |-> NoResp]
  /\ lastGet = <<>>
  /\ trace = [r \in Reqs |-> <<>>]
  /\ raced = [r \in Reqs |-> FALSE]
  /\ returned = [k \in AllIds |-> {}]

(* ------------------------------ helpers -------------------------------- *)

Call(c, res) == [call |-> c, result |-> res]

HTTPException(status, detail) ==
  [type |-> "HTTPException", status_code |-> status, detail |-> detail]

EngineException(text) ==
  [type |-> "Exception", status_code |-> 0, detail |-> <<text>>]

StatusText(s) == IF s = 404 THEN "404" ELSE IF s = 500 THEN "500" ELSE "400"

\* a handler that answers with a fixed message instead of str(e)
ExcStrGeneric(e) == <<"Internal Server Error">>

\* str(e): HTTPException.__str__ is "<status_code>: <detail>"; an engine
\* exception prints its text
ExcStr(e) ==
  IF e.type = "HTTPException"
    THEN <<StatusText(e.status_code), ": ">> \o e.detail
    ELSE e.detail

\* a probe that always reports the file
PathExistsAlways(p) == TRUE

\* os.path.exists
PathExists(p) == p \in fs

\* a lookup that trusts an entry only while its model file is still there
CacheHitIfFile(key) == key \in DOMAIN loaded_models /\ MODELS[key].path \in fs

\* a lookup that never finds the key
CacheHitNever(key) == FALSE

\* `model_key in loaded_models`
CacheHit(key) == key \in DOMAIN loaded_models

\* `model_key not in MODELS` negated
Configured(key) == key \in DOMAIN MODELS

\* the unknown-model error raised with the load-failure status
NotFoundErrorAs500(key) == HTTPException(500, <<"Model ", key, " not found">>)

NotFoundError(key) == HTTPException(404, <<"Model ", key, " not found">>)

FileMissingError(path) == HTTPException(404, <<"Model file not found: ", path>>)

LoadFailedError(text) == HTTPException(500, <<"Failed to load model: ", text>>)

\* handlers run by a thread pool (declared `def`): nothing excludes another
MayRunThreaded(r) == TRUE

\* the handlers are coroutines without an await: once one has started, the
\* event loop runs nothing else until it returns
MayRun(r) == running \in {0, r}

(* --------------------------- chat: load_model -------------------------- *)

\* a POST /chat request is received
ChatArrive(r, m, msgs) ==
  /\ pc[r] = "idle"
  /\ pc' = [pc EXCEPT ![r] = "queued"]
  /\ req' = [req EXCEPT ![r] = [model |-> m, messages |-> msgs]]
  /\ UNCHANGED <<MODELS, loaded_models, fs, nextHandle, running, model, prompt, idx,
                 exc, response, resp, lastGet, trace, raced, returned>>

\* chat starts and load_model looks the key up in the cache; the answer of an
\* earlier GET request has been sent by then
LookupCache(r) ==
  /\ pc[r] = "queued"
  /\ MayRun(r)
  /\ running' = r
  /\ LET key == req[r].model IN
       IF CacheHit(key)
         THEN /\ model' = [model EXCEPT ![r] = loaded_models[key]]
              /\ returned' = [returned EXCEPT ![key] = @ \cup {loaded_models[key]}]
              /\ trace' = [trace EXCEPT ![r] = Append(@, Call("cache", "hit"))]
              /\ pc' = [pc EXCEPT ![r] = "render"]
         ELSE /\ trace' = [trace EXCEPT ![r] = Append(@, Call("cache", "miss"))]
              /\ pc' = [pc EXCEPT ![r] = "config"]
              /\ UNCHANGED <<model, returned>>
  /\ lastGet' = <<>>
  /\ UNCHANGED <<MODELS, loaded_models, fs, nextHandle, req, prompt, idx, exc, response, resp,
                 raced>>

\* a lookup that registers an unknown key with the default model file
LookupConfigAutoRegister(r) ==
  /\ pc[r] = "config"
  /\ MayRun(r)
  /\ running' = r
  /\ LET key == req[r].model IN
       IF ~Configured(key)
         THEN /\ MODELS' = (key :> [path |-> "./models/llama.gguf", name |-> key,
                                    context_length |-> 4096]) @@ MODELS
              /\ trace' = [trace EXCEPT ![r] = Append(@, Call("config", "absent"))]
              /\ pc' = [pc EXCEPT ![r] = "probe"]
              /\ UNCHANGED exc
         ELSE /\ trace' = [trace EXCEPT ![r] = Append(@, Call("config", "present"))]
              /\ pc' = [pc EXCEPT ![r] = "probe"]
              /\ UNCHANGED <<MODELS, exc>>
  /\ UNCHANGED <<loaded_models, fs, nextHandle, req, model, prompt, idx, response, resp,
                 lastGet, raced, returned>>

\* load_model looks the key up in MODELS
LookupConfig(r) ==
  /\ pc[r] = "config"
  /\ MayRun(r)
  /\ running' = r
  /\ LET key == req[r].model IN
       IF ~Configured(key)
         THEN /\ exc' = [exc EXCEPT ![r] = <<NotFoundError(key)>>]
              /\ trace' = [trace EXCEPT ![r] = Append(@, Call("config", "absent"))]
              /\ pc' = [pc EXCEPT ![r] = "except"]
         ELSE /\ trace' = [trace EXCEPT ![r] = Append(@, Call("config", "present"))]
              /\ pc' = [pc EXCEPT ![r] = "probe"]
              /\ UNCHANGED exc
  /\ UNCHANGED <<MODELS, loaded_models, fs, nextHandle, req, model, prompt, idx, response, resp,
                 lastGet, raced, returned>>

\* load_model probes the configured path
ProbeFile(r) ==
  /\ pc[r] = "probe"
  /\ MayRun(r)
  /\ running' = r
  /\ LET path == MODELS[req[r].model].path IN
       /\ trace' = [trace EXCEPT ![r] =
                      Append(@, Call("probe", IF path \in fs THEN "present" ELSE "absent"))]
       /\ IF ~PathExists(path)
            THEN /\ exc' = [exc EXCEPT ![r] = <<FileMissingError(path)>>]
                 /\ pc' = [pc EXCEPT ![r] = "except"]
            ELSE /\ pc' = [pc EXCEPT ![r] = "load"]
                 /\ UNCHANGED exc
  /\ UNCHANGED <<MODELS, loaded_models, fs, nextHandle, req, model, prompt, idx, response, resp,
                 lastGet, raced, returned>>

\* requests that wait for, or are inside, a resolve of `key` while r loads it
Racing(r, key) ==
  {q \in Reqs \ {r} : pc[q] \in {"queued", "config", "probe", "load"} /\ req[q].model = key}

\* a loader that caches by file: the instance is stored under every id that is
\* configured with the same path
LoadEnginePerFile(r, errors) ==
  /\ pc[r] = "load"
  /\ MayRun(r)
  /\ running' = r
  /\ LET key == req[r].model
         path == MODELS[key].path
     IN
       /\ raced' = [q \in Reqs |-> IF q \in Racing(r, key) THEN TRUE ELSE raced[q]]
       /\ \/ /\ path \in fs
             /\ nextHandle <= MaxInstances
             /\ loaded_models' =
                  [k \in {i \in DOMAIN MODELS : MODELS[i].path = path} |-> nextHandle]
                    @@ loaded_models
             /\ nextHandle' = nextHandle + 1
             /\ model' = [model EXCEPT ![r] = nextHandle]
             /\ returned' = [returned EXCEPT ![key] = @ \cup {nextHandle}]
             /\ trace' = [trace EXCEPT ![r] = Append(@, Call("load", "ok"))]
             /\ pc' = [pc EXCEPT ![r] = "render"]
             /\ UNCHANGED exc
          \/ \E e \in errors :
               /\ exc' = [exc EXCEPT ![r] = <<LoadFailedError(e)>>]
               /\ trace' = [trace EXCEPT ![r] = Append(@, Call("load", e))]
               /\ pc' = [pc EXCEPT ![r] = "except"]
               /\ UNCHANGED <<loaded_models, nextHandle, model, returned>>
  /\ UNCHANGED <<MODELS, fs, req, prompt, idx, response, resp, lastGet>>

\* a loader with room for one instance: a successful load drops the others
LoadEngineSingleSlot(r, errors) ==
  /\ pc[r] = "load"
  /\ MayRun(r)
  /\ running' = r
  /\ LET key == req[r].model
         path == MODELS[key].path
     IN
       /\ raced' = [q \in Reqs |-> IF q \in Racing(r, key) THEN TRUE ELSE raced[q]]
       /\ \/ /\ path \in fs
             /\ nextHandle <= MaxInstances
             /\ loaded_models' = (key :> nextHandle)
             /\ nextHandle' = nextHandle + 1
             /\ model' = [model EXCEPT ![r] = nextHandle]
             /\ returned' = [returned EXCEPT ![key] = @ \cup {nextHandle}]
             /\ trace' = [trace EXCEPT ![r] = Append(@, Call("load", "ok"))]
             /\ pc' = [pc EXCEPT ![r] = "render"]
             /\ UNCHANGED exc
          \/ \E e \in errors :
               /\ exc' = [exc EXCEPT ![r] = <<LoadFailedError(e)>>]
               /\ trace' = [trace EXCEPT ![r] = Append(@, Call("load", e))]
               /\ pc' = [pc EXCEPT ![r] = "except"]
               /\ UNCHANGED <<loaded_models, nextHandle, model, returned>>
  /\ UNCHANGED <<MODELS, fs, req, prompt, idx, response, resp, lastGet>>

\* a loader that registers the id before it calls the engine and leaves the
\* entry behind when the engine raises
LoadEngineEarlyInsert(r, errors) ==
  /\ pc[r] = "load"
  /\ MayRun(r)
  /\ running' = r
  /\ nextHandle <= MaxInstances
  /\ LET key == req[r].model
         path == MODELS[key].path
     IN
       /\ raced' = [q \in Reqs |-> IF q \in Racing(r, key) THEN TRUE ELSE raced[q]]
       /\ loaded_models' = (key :> nextHandle) @@ loaded_models
       /\ nextHandle' = nextHandle + 1
       /\ \/ /\ path \in fs
             /\ model' = [model EXCEPT ![r] = nextHandle]
             /\ returned' = [returned EXCEPT ![key] = @ \cup {nextHandle}]
             /\ trace' = [trace EXCEPT ![r] = Append(@, Call("load", "ok"))]
             /\ pc' = [pc EXCEPT ![r] = "render"]
             /\ UNCHANGED exc
          \/ \E e \in errors :
               /\ exc' = [exc EXCEPT ![r] = <<LoadFailedError(e)>>]
               /\ trace' = [trace EXCEPT ![r] = Append(@, Call("load", e))]
               /\ pc' = [pc EXCEPT ![r] = "except"]
               /\ UNCHANGED <<model, returned>>
  /\ UNCHANGED <<MODELS, fs, req, prompt, idx, response, resp, lastGet>>

\* a loader that tries the engine a second time when the first attempt raises
LoadEngineRetry(r, errors) ==
  /\ pc[r] = "load"
  /\ MayRun(r)
  /\ running' = r
  /\ LET key == req[r].model
         path == MODELS[key].path
     IN
       /\ raced' = [q \in Reqs |-> IF q \in Racing(r, key) THEN TRUE ELSE raced[q]]
       /\ \/ /\ path \in fs
             /\ nextHandle <= MaxInstances
             /\ loaded_models' = (key :> nextHandle) @@ loaded_models
             /\ nextHandle' = nextHandle + 1
             /\ model' = [model EXCEPT ![r] = nextHandle]
             /\ returned' = [returned EXCEPT ![key] = @ \cup {nextHandle}]
             /\ trace' = [trace EXCEPT ![r] = Append(@, Call("load", "ok"))]
             /\ pc' = [pc EXCEPT ![r] = "render"]
             /\ UNCHANGED exc
          \/ \E e \in errors :
               /\ exc' = [exc EXCEPT ![r] = <<LoadFailedError(e)>>]
               /\ trace' = [trace EXCEPT ![r] = Append(@, Call("load", e))]
               /\ pc' = [pc EXCEPT ![r] =
                           IF \E i \in 1..Len(trace[r]) : trace[r][i].call = "load"
                             THEN "except" ELSE "load"]
               /\ UNCHANGED <<loaded_models, nextHandle, model, returned>>
  /\ UNCHANGED <<MODELS, fs, req, prompt, idx, response, resp, lastGet>>

\* load_model constructs the Llama instance; the engine returns or raises
LoadEngine(r, errors) ==
  /\ pc[r] = "load"
  /\ MayRun(r)
  /\ running' = r
  /\ LET key == req[r].model
         path == MODELS[key].path
     IN
       /\ raced' = [q \in Reqs |-> IF q \in Racing(r, key) THEN TRUE ELSE raced[q]]
       /\ \/ /\ path \in fs
             /\ nextHandle <= MaxInstances
             /\ loaded_models' = (key :> nextHandle) @@ loaded_models
             /\ nextHandle' = nextHandle + 1
             /\ model' = [model EXCEPT ![r] = nextHandle]
             /\ returned' = [returned EXCEPT ![key] = @ \cup {nextHandle}]
             /\ trace' = [trace EXCEPT ![r] = Append(@, Call("load", "ok"))]
             /\ pc' = [pc EXCEPT ![r] = "render"]
             /\ UNCHANGED exc
          \/ \E e \in errors :
               /\ exc' = [exc EXCEPT ![r] = <<LoadFailedError(e)>>]
               /\ trace' = [trace EXCEPT ![r] = Append(@, Call("load", e))]
               /\ pc' = [pc EXCEPT ![r] = "except"]
               /\ UNCHANGED <<loaded_models, nextHandle, model, returned>>
  /\ UNCHANGED <<MODELS, fs, req, prompt, idx, response, resp, lastGet>>

(* ----------------------------- chat: prompt ---------------------------- *)

DefaultedRole(message) == IF message.role = NoRole THEN "user" ELSE message.role

\* the text one loop iteration appends to the prompt
RenderLine(message) ==
  LET role == DefaultedRole(message)
      content == message.content
  IN  IF role = "system" THEN <<"System: ", content, "\n">>
      ELSE IF role = "user" THEN <<"User: ", content, "\n">>
      ELSE IF role = "assistant" THEN <<"Assistant: ", content, "\n">>
      ELSE <<>>

\* a loop that puts each new line in front of the prompt
RenderMessagePrepend(r) ==
  /\ pc[r] = "render"
  /\ MayRun(r)
  /\ running' = r
  /\ idx[r] < Len(req[r].messages)
  /\ prompt' = [prompt EXCEPT ![r] = RenderLine(req[r].messages[idx[r] + 1]) \o @]
  /\ idx' = [idx EXCEPT ![r] = @ + 1]
  /\ UNCHANGED <<MODELS, loaded_models, fs, nextHandle, pc, req, model, exc, response, resp,
                 lastGet, trace, raced, returned>>

\* one iteration of `for message in request.messages`
RenderMessage(r) ==
  /\ pc[r] = "render"
  /\ MayRun(r)
  /\ running' = r
  /\ idx[r] < Len(req[r].messages)
  /\ prompt' = [prompt EXCEPT ![r] = @ \o RenderLine(req[r].messages[idx[r] + 1])]
  /\ idx' = [idx EXCEPT ![r] = @ + 1]
  /\ UNCHANGED <<MODELS, loaded_models, fs, nextHandle, pc, req, model, exc, response, resp,
                 lastGet, trace, raced, returned>>

\* prompt += "Assistant: "
RenderTail(r) ==
  /\ pc[r] = "render"
  /\ MayRun(r)
  /\ running' = r
  /\ idx[r] = Len(req[r].messages)
  /\ prompt' = [prompt EXCEPT ![r] = @ \o <<"Assistant: ">>]
  /\ pc' = [pc EXCEPT ![r] = "generate"]
  /\ UNCHANGED <<MODELS, loaded_models, fs, nextHandle, req, model, idx, exc, response, resp,
                 lastGet, trace, raced, returned>>

(* ---------------------------- chat: generate --------------------------- *)

IsSpace(t) == t \in {" ", "\n"}

RECURSIVE LStrip(_)
LStrip(t) == IF t # <<>> /\ IsSpace(Head(t)) THEN LStrip(Tail(t)) ELSE t

RECURSIVE RStrip(_)
RStrip(t) ==
  IF t # <<>> /\ IsSpace(t[Len(t)]) THEN RStrip(SubSeq(t, 1, Len(t) - 1)) ELSE t

\* str.strip()
Strip(t) == RStrip(LStrip(t))

\* an envelope that recomputes the total from the two other counts
ChatResponseRecount(request, out) ==
  [model |-> request.model,
   response |-> Strip(out.text),
   usage |-> [prompt_tokens |-> out.usage.prompt_tokens,
              completion_tokens |-> out.usage.completion_tokens,
              total_tokens |-> out.usage.prompt_tokens + out.usage.completion_tokens]]

\* ChatResponse(model=..., response=..., usage={...})
ChatResponse(request, out) ==
  [model |-> request.model,
   response |-> Strip(out.text),
   usage |-> [prompt_tokens |-> out.usage.prompt_tokens,
              completion_tokens |-> out.usage.completion_tokens,
              total_tokens |-> out.usage.total_tokens]]

\* model(prompt, ...) returns a completion or raises; on return the handler
\* builds the ChatResponse and answers 200
Generate(r, errors, responses) ==
  /\ pc[r] = "generate"
  /\ MayRun(r)
  /\ \/ \E out \in responses :
          /\ response' = [response EXCEPT ![r] = <<out>>]
          /\ resp' = [resp EXCEPT ![r] =
                        [status |-> 200, detail |-> <<>>,
                         body |-> <<ChatResponse(req[r], out)>>]]
          /\ trace' = [trace EXCEPT ![r] = Append(@, Call("generate", "ok"))]
          /\ pc' = [pc EXCEPT ![r] = "done"]
          /\ running' = 0
          /\ UNCHANGED exc
     \/ \E e \in errors :
          /\ exc' = [exc EXCEPT ![r] = <<EngineException(e)>>]
          /\ trace' = [trace EXCEPT ![r] = Append(@, Call("generate", e))]
          /\ pc' = [pc EXCEPT ![r] = "except"]
          /\ running' = r
          /\ UNCHANGED <<response, resp>>
  /\ UNCHANGED <<MODELS, loaded_models, fs, nextHandle, req, model, prompt, idx,
                 lastGet, raced, returned>>

\* a handler that undoes the request's own load when the request fails
HandleExceptionRollback(r) ==
  /\ pc[r] = "except"
  /\ MayRun(r)
  /\ resp' = [resp EXCEPT ![r] =
                [status |-> 500, detail |-> ExcStr(exc[r][1]), body |-> <<>>]]
  /\ loaded_models' =
       IF \E i \in 1..Len(trace[r]) : trace[r][i] = Call("load", "ok")
         THEN [k \in DOMAIN loaded_models \ {req[r].model} |-> loaded_models[k]]
         ELSE loaded_models
  /\ pc' = [pc EXCEPT ![r] = "done"]
  /\ running' = 0
  /\ UNCHANGED <<MODELS, fs, nextHandle, req, model, prompt, idx, exc,
                 response, lastGet, trace, raced, returned>>

\* a handler that answers a failed request with an envelope holding whatever
\* was produced so far
HandleExceptionPartial(r) ==
  /\ pc[r] = "except"
  /\ MayRun(r)
  /\ resp' = [resp EXCEPT ![r] =
                [status |-> 200, detail |-> ExcStr(exc[r][1]),
                 body |-> <<[model |-> req[r].model, response |-> <<>>,
                             usage |-> [prompt_tokens |-> 0, completion_tokens |-> 0,
                                        total_tokens |-> 0]]>>]]
  /\ pc' = [pc EXCEPT ![r] = "done"]
  /\ running' = 0
  /\ UNCHANGED <<MODELS, loaded_models, fs, nextHandle, req, model, prompt, idx, exc,
                 response, lastGet, trace, raced, returned>>

\* except Exception as e: raise HTTPException(status_code=500, detail=str(e))
HandleException(r) ==
  /\ pc[r] = "except"
  /\ MayRun(r)
  /\ resp' = [resp EXCEPT ![r] =
                [status |-> 500, detail |-> ExcStr(exc[r][1]), body |-> <<>>]]
  /\ pc' = [pc EXCEPT ![r] = "done"]
  /\ running' = 0
  /\ UNCHANGED <<MODELS, loaded_models, fs, nextHandle, req, model, prompt, idx, exc,
                 response, lastGet, trace, raced, returned>>

\* the response has been sent; the request's frame is gone
Close(r) ==
  /\ pc[r] = "done"
  /\ pc' = [pc EXCEPT ![r] = "idle"]
  /\ req' = [req EXCEPT ![r] = NoReq]
  /\ model' = [model EXCEPT ![r] = 0]
  /\ prompt' = [prompt EXCEPT ![r] = <<>>]
  /\ idx' = [idx EXCEPT ![r] = 0]
  /\ exc' = [exc EXCEPT ![r] = <<>>]
  /\ response' = [response EXCEPT ![r] = <<>>]
  /\ resp' = [resp EXCEPT ![r] = NoResp]
  /\ trace' = [trace EXCEPT ![r] = <<>>]
  /\ raced' = [raced EXCEPT ![r] = FALSE]
  /\ UNCHANGED <<MODELS, loaded_models, fs, nextHandle, running, lastGet, returned>>

(* ----------------------------- GET handlers ---------------------------- *)

\* GET /
Root ==
  /\ running = 0
  /\ lastGet' = <<[route |-> "/", message |-> "Local Model Server is running",
                   models |-> <<>>]>>
  /\ UNCHANGED <<MODELS, loaded_models, fs, nextHandle, running, pc, req, model, prompt,
                 idx, exc, response, resp, trace, raced, returned>>

\* the keys of a dict in iteration (insertion) order
Items(d) == SelectSeq(ModelKeys, LAMBDA k : k \in DOMAIN d)

\* a listing that reports what is loaded instead of what is on disk
ModelEntryLoaded(key) ==
  [id |-> key, name |-> MODELS[key].name, available |-> key \in DOMAIN loaded_models]

ModelEntry(key) ==
  [id |-> key, name |-> MODELS[key].name, available |-> PathExists(MODELS[key].path)]

\* GET /models
ListModels ==
  /\ running = 0
  /\ lastGet' = <<[route |-> "/models", message |-> "",
                   models |-> [i \in 1..Len(Items(MODELS)) |-> ModelEntry(Items(MODELS)[i])]]>>
  /\ UNCHANGED <<MODELS, loaded_models, fs, nextHandle, running, pc, req, model, prompt,
                 idx, exc, response, resp, trace, raced, returned>>

(* ----------------------------- environment ----------------------------- *)

\* a model file is put in place by the operator
FileCreated(p) ==
  /\ p \notin fs
  /\ fs' = fs \cup {p}
  /\ UNCHANGED <<MODELS, loaded_models, nextHandle, running, pc, req, model, prompt, idx,
                 exc, response, resp, lastGet, trace, raced, returned>>

\* a model file is removed from disk
FileRemoved(p) ==
  /\ p \in fs
  /\ fs' = fs \ {p}
  /\ UNCHANGED <<MODELS, loaded_models, nextHandle, running, pc, req, model, prompt, idx,
                 exc, response, resp, lastGet, trace, raced, returned>>

(* --------------------------- specifications ---------------------------- *)

\* a step of the chat handler of request r, with what the engine may do
ChatStep(r, errors, responses) ==
  \/ LookupCache(r)
  \/ LookupConfig(r)
  \/ ProbeFile(r)
  \/ LoadEngine(r, errors)
  \/ RenderMessage(r)
  \/ RenderTail(r)
  \/ Generate(r, errors, responses)
  \/ HandleException(r)
  \/ Close(r)

Next ==
  \/ \E r \in Reqs, m \in RequestIds, msgs \in ChatMsgs : ChatArrive(r, m, msgs)
  \/ \E r \in Reqs : ChatStep(r, ChatErrors, ChatResponses)
  \/ Root
  \/ ListModels
  \/ \E p \in Paths : FileCreated(p)
  \/ \E p \in Paths : FileRemoved(p)

\* the server under concurrent requests
Spec == Init /\ [][Next]_vars

\* one request at a time, with every message list up to MaxMsgs and every
\* outcome of the engine
NextSingle ==
  \/ \E m \in SingleIds, msgs \in RenderMsgs : ChatArrive(1, m, msgs)
  \/ ChatStep(1, EngineErrors, EngineResponses)
  \/ \E p \in Paths : FileCreated(p)
  \/ \E p \in Paths : FileRemoved(p)

SpecSingle == Init /\ [][NextSingle]_vars

\* one request at a time, where a handler that has started runs on: the event
\* loop runs a received request, and every step of the handler (a dict lookup,
\* a file probe, an engine call that returns or raises) ends
SpecSingleFair == SpecSingle /\ WF_vars(ChatStep(1, EngineErrors, EngineResponses))

(* ------------------------------ properties ----------------------------- *)

\* request r has made the call c
Called(r, c) == \E i \in 1..Len(trace[r]) : trace[r][i].call = c

\* request r has made the call c with result res
Did(r, c, res) == \E i \in 1..Len(trace[r]) : trace[r][i] = Call(c, res)

\* texts the engine raised inside request r
Raised(r) ==
  {trace[r][i].result : i \in {j \in 1..Len(trace[r]) :
      trace[r][j].call \in {"load", "generate"} /\ trace[r][j].result \in EngineErrors}}

Range(f) == {f[i] : i \in DOMAIN f}

\* C1 as stated: a chat request that was pending on an id while another
\* request invoked the engine loader for that id never invokes the loader
\* itself, so concurrent requests for one id cause exactly one invocation.
C1_ExactlyOneLoad == \A r \in Reqs : raced[r] => ~Called(r, "load")

\* C1 amended: the engine loader is invoked for an id only while that id is
\* not cached, so at most one invocation per id succeeds and every instance
\* ever constructed is the cache entry of its own id; concurrent requests
\* invoke the loader a second time only after the earlier invocation raised.
C1_AtMostOneSuccessfulLoad ==
  /\ [](nextHandle - 1 = Cardinality(DOMAIN loaded_models))
  /\ [][\A r \in Reqs :
          pc[r] = "load" /\ pc'[r] # "load" => req[r].model \notin DOMAIN loaded_models]_vars

\* two requests raced on an uncached id: one load, the other served from the cache
C1_Witness ==
  \E r \in Reqs :
    /\ raced[r]
    /\ Did(r, "cache", "hit")
    /\ nextHandle = 2
    /\ pc[r] = "done"

\* C2: all successful load_model calls for one id return the same instance,
\* the one stored in the cache, whatever happened in between.
C2_SameHandle ==
  /\ \A k \in AllIds :
       /\ Cardinality(returned[k]) <= 1
       /\ returned[k] # {} => k \in DOMAIN loaded_models /\ returned[k] = {loaded_models[k]}
  /\ \A r \in Reqs :
       model[r] # 0 => /\ req[r].model \in DOMAIN loaded_models
                       /\ model[r] = loaded_models[req[r].model]

\* two requests for one id hold an instance, one of them after racing on the load
C2_Witness ==
  \E r1, r2 \in Reqs :
    /\ r1 # r2
    /\ req[r1].model = req[r2].model
    /\ model[r1] # 0
    /\ model[r2] # 0
    /\ Did(r1, "load", "ok")
    /\ raced[r2]

\* the request's configured file was absent when load_model probed it
FileWasMissing(r) == Did(r, "probe", "absent")

\* C3 as stated: a chat request for an unknown model id, or for a configured
\* id whose file is absent, is answered with status 404.
C3_NotFoundIs404 ==
  \A r \in Reqs :
    pc[r] = "done" /\ (req[r].model \notin ModelIds \/ FileWasMissing(r))
      => resp[r].status = 404

\* C4: for an id that is not a key of the configuration, load_model raises
\* the 404 "Model <id> not found" error without probing the file system or
\* invoking the engine loader, and its steps leave the cache unchanged.
C4_UnknownIdNotFound ==
  /\ [](\A r \in Reqs :
          pc[r] # "idle" /\ req[r].model \notin ModelIds =>
            /\ pc[r] \in {"queued", "config", "except", "done"}
            /\ ~Called(r, "probe")
            /\ ~Called(r, "load")
            /\ model[r] = 0
            /\ pc[r] \in {"except", "done"} =>
                 exc[r] = <<HTTPException(404, <<"Model ", req[r].model, " not found">>)>>)
  /\ [][\A r \in Reqs :
          pc[r] # "idle" /\ req[r].model \notin ModelIds /\ pc'[r] # pc[r] =>
            /\ loaded_models' = loaded_models
            /\ nextHandle' = nextHandle]_vars

\* an unknown id was refused while the cache held a model
C4_Witness ==
  \E r \in Reqs :
    /\ req[r].model = "nope"
    /\ pc[r] = "done"
    /\ Did(r, "config", "absent")
    /\ DOMAIN loaded_models # {}

\* C5: for a configured, uncached id whose file is absent when probed,
\* load_model raises the 404 "Model file not found" error, never invokes the
\* engine loader, and leaves the cache unchanged.
C5_MissingFileNotLoaded ==
  /\ [](\A r \in Reqs :
          FileWasMissing(r) =>
            /\ pc[r] \in {"except", "done"}
            /\ ~Called(r, "load")
            /\ model[r] = 0
            /\ exc[r] = <<HTTPException(404,
                 <<"Model file not found: ", ModelConfig[req[r].model].path>>)>>)
  /\ [][\A r \in Reqs :
          /\ pc[r] = "probe"
          /\ pc'[r] # pc[r]
          /\ ModelConfig[req[r].model].path \notin fs
          => /\ pc'[r] = "except"
             /\ loaded_models' = loaded_models
             /\ nextHandle' = nextHandle]_vars

\* a request failed on a missing file while another id was cached
C5_Witness ==
  \E r \in Reqs :
    /\ FileWasMissing(r)
    /\ pc[r] = "done"
    /\ req[r].model \notin DOMAIN loaded_models
    /\ DOMAIN loaded_models # {}

KnownRoles == {"system", "user", "assistant"}

\* the for loop of request r has ended and the trailing text is appended
PromptDone(r) == pc[r] = "generate" \/ Called(r, "generate")

\* C6 as stated: every message whose role is none of system, user, assistant
\* contributes a "User: <content>" line, and no message of the request is
\* missing from the prompt.
C6_UnknownRoleAsUser ==
  \A r \in Reqs :
    PromptDone(r) =>
      LET msgs == req[r].messages IN
        /\ Len(prompt[r]) = 3 * Len(msgs) + 1
        /\ \A i \in 1..Len(msgs) :
             msgs[i].role \notin KnownRoles =>
               /\ prompt[r][3 * i - 2] = "User: "
               /\ prompt[r][3 * i - 1] = msgs[i].content

\* the prefix the template gives a known role
PrefixOf(role) ==
  CASE role = "system" -> "System: "
    [] role = "user" -> "User: "
    [] role = "assistant" -> "Assistant: "

\* C7: for a message list of system/user/assistant roles the prompt is, in
\* request order, one "<RolePrefix>: <content>\n" line per message followed by
\* one trailing "Assistant: " and nothing else.
C7_PromptInOrder ==
  \A r \in Reqs :
    LET msgs == req[r].messages IN
      PromptDone(r) /\ (\A i \in 1..Len(msgs) : msgs[i].role \in KnownRoles) =>
        /\ Len(prompt[r]) = 3 * Len(msgs) + 1
        /\ prompt[r][Len(prompt[r])] = "Assistant: "
        /\ \A i \in 1..Len(msgs) :
             /\ prompt[r][3 * i - 2] = PrefixOf(msgs[i].role)
             /\ prompt[r][3 * i - 1] = msgs[i].content
             /\ prompt[r][3 * i] = "\n"

\* a prompt was rendered from two messages of different roles and contents
C7_Witness ==
  \E r \in Reqs :
    /\ pc[r] = "generate"
    /\ Len(req[r].messages) = 2
    /\ req[r].messages[1].role = "assistant"
    /\ req[r].messages[2].role = "system"
    /\ req[r].messages[1].content # req[r].messages[2].content

\* C8 as stated: a chat request with the empty model id is refused as a bad
\* request before load_model is called: no cache lookup, no configuration
\* lookup, no probe, no load.
C8_EmptyIdRejected ==
  \A r \in Reqs :
    pc[r] # "idle" /\ req[r].model = "" =>
      /\ trace[r] = <<>>
      /\ pc[r] = "done" => resp[r].status = 400

\* C9: GET /models answers with one entry per configured id, each id once,
\* whose `available` is the result of probing that id's path, and it leaves
\* the cache, the configuration and the engine untouched.
C9_ListingReflectsProbe ==
  [][ListModels =>
       LET listing == lastGet'[1].models IN
         /\ lastGet'[1].route = "/models"
         /\ Len(listing) = Cardinality(ModelIds)
         /\ \A k \in ModelIds :
              Cardinality({i \in 1..Len(listing) : listing[i].id = k}) = 1
         /\ \A i \in 1..Len(listing) :
              /\ listing[i].id \in ModelIds
              /\ listing[i].available = (ModelConfig[listing[i].id].path \in fs)
         /\ loaded_models' = loaded_models
         /\ MODELS' = MODELS
         /\ trace' = trace
         /\ nextHandle' = nextHandle]_vars

\* the listing reports a loaded model's file as unavailable after its removal
C9_Witness ==
  /\ lastGet # <<>>
  /\ lastGet[1].route = "/models"
  /\ \A i \in 1..Len(lastGet[1].models) : ~lastGet[1].models[i].available
  /\ DOMAIN loaded_models # {}

\* C10: a chat request in which the engine raised, at load or at generation,
\* ends with status 500 and a detail that carries the engine's text, never
\* with a response body.
C10_EngineErrorIs500 ==
  \A r \in Reqs :
    pc[r] = "done" /\ Raised(r) # {} =>
      /\ resp[r].status = 500
      /\ resp[r].body = <<>>
      /\ Raised(r) \subseteq Range(resp[r].detail)

\* a request ended on a load error
C10_Witness ==
  \E r \in Reqs : pc[r] = "done" /\ Did(r, "load", "bad gguf")

(* C11 *)

\* the calls of request r to the engine: the loader and the generation
EngineCalls(r) == {i \in 1..Len(trace[r]) : trace[r][i].call \in {"load", "generate"}}

\* how many times request r has made the call c
CallCount(r, c) == Cardinality({i \in 1..Len(trace[r]) : trace[r][i].call = c})

\* C11: nothing is retried inside one chat request: the loader is invoked at
\* most once, the engine generates at most once, and no call to the engine
\* follows one that raised
C11_NoRetry ==
  \A r \in Reqs :
    /\ CallCount(r, "load") <= 1
    /\ CallCount(r, "generate") <= 1
    /\ \A i, j \in EngineCalls(r) : trace[r][i].result # "ok" => j <= i

\* a finished request whose load succeeded and whose generation raised
C11_Witness ==
  \E r \in Reqs :
    /\ pc[r] = "done"
    /\ Did(r, "load", "ok")
    /\ \E e \in ChatErrors : Did(r, "generate", e)
    /\ CallCount(r, "load") = 1 /\ CallCount(r, "generate") = 1

(* C12 *)

\* request r was answered with a complete response envelope
Envelope(r) ==
  /\ resp[r].status = 200
  /\ resp[r].detail = <<>>
  /\ Len(resp[r].body) = 1
  /\ exc[r] = <<>>
  /\ model[r] # 0
  /\ Did(r, "cache", "hit") \/ Did(r, "load", "ok")
  /\ Did(r, "generate", "ok")
  /\ response[r] # <<>>

\* request r was answered with an error and nothing else
ErrorOnly(r) ==
  /\ resp[r].status = 500
  /\ resp[r].body = <<>>
  /\ exc[r] # <<>>
  /\ ~Did(r, "generate", "ok")
  /\ response[r] = <<>>

\* nothing has been sent for a request that has not ended; a request that has
\* ended got an envelope or an error, not both
OneOutcome ==
  \A r \in Reqs :
    /\ pc[r] # "done" => resp[r] = NoResp
    /\ pc[r] = "done" => (Envelope(r) \/ ErrorOnly(r)) /\ ~(Envelope(r) /\ ErrorOnly(r))

\* C12: every chat request that has been received ends; it ends with exactly
\* one outcome, an envelope (only after resolve and generate both succeeded)
\* or an error, and the outcome sent is not changed afterwards
C12_ExactlyOneOutcome ==
  /\ []OneOutcome
  /\ [][\A r \in Reqs : pc[r] = "done" /\ pc'[r] = "done" => resp'[r] = resp[r]]_vars
  /\ \A r \in {1} : (pc[r] = "queued") ~> (pc[r] = "done")

\* a request resolved its model from the cache, generation raised, and the
\* request ended with an error and no part of an envelope
C12_Witness ==
  /\ pc[1] = "done"
  /\ Did(1, "cache", "hit")
  /\ Raised(1) # {}
  /\ ErrorOnly(1)

(* C13 *)

\* C13: while one request is inside the engine's generate call, the resolve of
\* another request whose model id is already cached can run
C13_GenerateDoesNotBlockResolve ==
  \A r1, r2 \in Reqs :
    (/\ r1 # r2
     /\ pc[r1] = "generate" /\ running = r1
     /\ pc[r2] = "queued" /\ req[r2].model \in DOMAIN loaded_models)
    => ENABLED LookupCache(r2)

(* C14 *)

\* the usage report of the engine says total = prompt + completion
UsageAddsUp(u) == u.total_tokens = u.prompt_tokens + u.completion_tokens

\* C14: a successful chat answers with the request's model id and with the
\* three usage counts of the engine's report as they are; the total is the
\* sum of the two others whenever it is in the engine's report
C14_UsagePassedThrough ==
  \A r \in Reqs :
    pc[r] = "done" /\ resp[r].status = 200 =>
      LET body == resp[r].body[1]
          usage == response[r][1].usage
      IN  /\ body.model = req[r].model
          /\ body.usage.prompt_tokens = usage.prompt_tokens
          /\ body.usage.completion_tokens = usage.completion_tokens
          /\ body.usage.total_tokens = usage.total_tokens
          /\ UsageAddsUp(usage) => UsageAddsUp(body.usage)

\* a successful chat whose engine reported a total that is not the sum
C14_Witness ==
  \E r \in Reqs :
    /\ pc[r] = "done" /\ resp[r].status = 200
    /\ ~UsageAddsUp(response[r][1].usage)
    /\ resp[r].body[1].usage = response[r][1].usage
    /\ resp[r].body[1].model = "llama"

(* C15 *)

\* request r resolves its model in this step, and the id is in the cache
ResolvesCached(r) ==
  /\ pc[r] = "queued" /\ pc'[r] # "queued"
  /\ req[r].model \in DOMAIN loaded_models

\* C15: a resolve for an id that is in the cache returns the cached handle at
\* once: the resolve is over after the cache lookup, with no configuration
\* lookup, no file probe and no call of the loader, whether or not the model
\* file is still on disk; the request makes none of these calls later either
C15_CachedResolveIsFetch ==
  /\ [][\A r \in Reqs :
          ResolvesCached(r) =>
            /\ pc'[r] = "render"
            /\ model'[r] = loaded_models[req[r].model]
            /\ trace'[r] = <<Call("cache", "hit")>>
            /\ loaded_models' = loaded_models /\ nextHandle' = nextHandle]_vars
  /\ [](\A r \in Reqs :
          Did(r, "cache", "hit") =>
            ~Called(r, "config") /\ ~Called(r, "probe") /\ ~Called(r, "load"))

\* a request was handed the cached instance although the model file is gone
C15_Witness ==
  \E r \in Reqs :
    /\ trace[r] = <<Call("cache", "hit")>>
    /\ pc[r] = "render"
    /\ model[r] = loaded_models[req[r].model]
    /\ MODELS[req[r].model].path \notin fs

(* C16 *)

\* the loader of request r raises in this step
LoadRaises(r) ==
  /\ pc[r] = "load" /\ pc'[r] # "load"
  /\ \E e \in EngineErrors : trace'[r] = Append(trace[r], Call("load", e))

\* the loader of request r returns in this step
LoadReturns(r) ==
  /\ pc[r] = "load" /\ pc'[r] # "load"
  /\ trace'[r] = Append(trace[r], Call("load", "ok"))

\* C16: an id enters the cache only in a step in which the loader returned for
\* that id; when the loader raises, load_model fails with the load-failure
\* error that carries the engine's text, the cache is as it was and the id is
\* not in it; a request that resolves an uncached id later goes on to the
\* loader again instead of being served from the cache
C16_InsertOnlyAfterLoad ==
  /\ [][\A k \in DOMAIN loaded_models' \ DOMAIN loaded_models :
          \E r \in Reqs : LoadReturns(r) /\ req[r].model = k
                          /\ loaded_models'[k] = model'[r]]_vars
  /\ [][\A r \in Reqs :
          LoadRaises(r) =>
            /\ loaded_models' = loaded_models
            /\ nextHandle' = nextHandle
            /\ req[r].model \notin DOMAIN loaded_models'
            /\ pc'[r] = "except"
            /\ \E e \in EngineErrors :
                 /\ Did(r, "load", e)'
                 /\ exc'[r] = <<LoadFailedError(e)>>]_vars
  /\ [][\A r \in Reqs :
          pc[r] = "queued" /\ pc'[r] # "queued" /\ req[r].model \notin DOMAIN loaded_models
            => pc'[r] = "config" /\ model'[r] = 0]_vars

\* the loader raised for one request, and a later request for the same id
\* invoked the loader again, which returned
C16_Witness ==
  \E r1, r2 \in Reqs :
    /\ r1 # r2
    /\ req[r1].model = req[r2].model
    /\ pc[r1] = "done" /\ \E e \in EngineErrors : Did(r1, "load", e)
    /\ ~raced[r2]
    /\ Did(r2, "load", "ok")
    /\ loaded_models[req[r2].model] = model[r2]

(* C17 *)

\* C17: no step of the server, whichever handler takes it and however the
\* requests interleave, removes an entry from the cache or changes the
\* instance an id maps to
C17_CacheOnlyGrows ==
  [][\A k \in DOMAIN loaded_models :
       k \in DOMAIN loaded_models' /\ loaded_models'[k] = loaded_models[k]]_vars

\* two ids are cached with the instances their loads made, after a second
\* load, a failed generation and a listing have gone by
C17_Witness ==
  /\ DOMAIN loaded_models = {"mistral", "llama"}
  /\ loaded_models["mistral"] = 1 /\ loaded_models["llama"] = 2
  /\ lastGet # <<>> /\ lastGet[1].route = "/models"
  /\ \E r \in Reqs : pc[r] = "done" /\ resp[r].status = 500 /\ Called(r, "generate")

(* C18 *)

\* C18: every cached id is a configured id, so a request served from the
\* cache, which skips the configuration check, asked for a configured id; the
\* configuration is the one the process started with
C18_CachedAreConfigured ==
  /\ MODELS = ModelConfig
  /\ DOMAIN loaded_models \subseteq DOMAIN MODELS
  /\ \A r \in Reqs : Did(r, "cache", "hit") => req[r].model \in DOMAIN MODELS

\* a request for an unconfigured id has been through the cache lookup and the
\* configuration check while another id was cached
C18_Witness ==
  \E r \in Reqs :
    /\ req[r].model \notin DOMAIN MODELS
    /\ trace[r] = <<Call("cache", "miss"), Call("config", "absent")>>
    /\ DOMAIN loaded_models # {}

(* C19 *)

\* request r loaded its model and its generation raised
LoadedThenFailed(r) ==
  /\ Did(r, "load", "ok")
  /\ \E e \in EngineErrors : Did(r, "generate", e)

\* C19: a request that loaded its model and then failed at generation leaves
\* the model cached, also once it has been answered; the next request for the
\* same id gets that instance from the cache and does not call the loader
C19_FailedGenerationKeepsModel ==
  /\ [](\A r \in Reqs :
          LoadedThenFailed(r) =>
            /\ req[r].model \in DOMAIN loaded_models
            /\ loaded_models[req[r].model] = model[r])
  /\ [][\A r2 \in Reqs :
          pc[r2] = "queued" /\ pc'[r2] # "queued" =>
            \A r1 \in Reqs \ {r2} :
              (/\ pc[r1] = "done" /\ req[r2].model = req[r1].model
               /\ LoadedThenFailed(r1))
              => /\ pc'[r2] = "render"
                 /\ model'[r2] = model[r1]
                 /\ trace'[r2] = <<Call("cache", "hit")>>
                 /\ nextHandle' = nextHandle]_vars

\* one request loaded the model and failed at generation; the next one for the
\* same id was served from the cache and generated with the same instance
C19_Witness ==
  \E r1, r2 \in Reqs :
    /\ r1 # r2
    /\ pc[r1] = "done" /\ LoadedThenFailed(r1) /\ resp[r1].status = 500
    /\ req[r2].model = req[r1].model
    /\ Did(r2, "cache", "hit") /\ CallCount(r2, "load") = 0
    /\ model[r2] = model[r1]
    /\ Did(r2, "generate", "ok")

(* C20 *)

\* the successful loads so far: each one took the next instance number
SuccessfulLoads == nextHandle - 1

\* C20: the cache is keyed by id: two cached ids never share an instance, also
\* when they are configured with the same file, and an id is not served from
\* the entry of another id with the same file; every successful load made one
\* entry, so there are at most as many as configured ids
C20_KeyedById ==
  /\ [](/\ \A k1, k2 \in DOMAIN loaded_models :
             k1 # k2 => loaded_models[k1] # loaded_models[k2]
        /\ SuccessfulLoads = Cardinality(DOMAIN loaded_models)
        /\ SuccessfulLoads <= Cardinality(DOMAIN MODELS))
  /\ [][\A r \in Reqs :
          (/\ pc[r] = "queued" /\ pc'[r] # "queued"
           /\ req[r].model \in DOMAIN MODELS \ DOMAIN loaded_models
           /\ \E k \in DOMAIN loaded_models : MODELS[k].path = MODELS[req[r].model].path)
          => pc'[r] = "config" /\ model'[r] = 0]_vars

\* two ids configured with one file are both cached, each with its own
\* instance: more loads have succeeded than there are files
C20_Witness ==
  \E k1, k2 \in DOMAIN loaded_models :
    /\ k1 # k2
    /\ MODELS[k1].path = MODELS[k2].path
    /\ loaded_models[k1] # loaded_models[k2]
    /\ SuccessfulLoads > Cardinality(Paths)

====
